---- MODULE Spec2Model ----
(***************************************************************************)
(* A model of server/index.js of byteforce-space-plaid: the SQLite tables  *)
(* items and cursors, the handlers /api/exchange_public_token,             *)
(* /api/transactions/sync, /api/transactions/sync-all and                  *)
(* /refresh_dashboard, and fetchItemSnapshot.  The Plaid API client is the *)
(* environment: every outbound call either throws or resolves with a       *)
(* response drawn from a small set.                                        *)
(*                                                                         *)
(* Encoding of JavaScript values:                                          *)
(*   - a string field that is absent/undefined/null is "" (the code reads  *)
(*     such fields only through ||, which treats "" the same way);         *)
(*   - a nullable object, array or number is None (<<>>) or Some(v)        *)
(*     (<<v>>).                                                            *)
(***************************************************************************)
EXTENDS Integers, Sequences, FiniteSets, TLC

VARIABLES
    items,      \* table items, in rowid order: a sequence of rows
    cursors,    \* table cursors: item_id -> NoRow, or the cursor column
    upLen,      \* upstream: per item, the number of transaction updates it holds
    hs,         \* sync / sync-all handlers in flight, per request slot
    exchResp,   \* the last response of /api/exchange_public_token
    envToken,   \* process.env.DASHBOARD_REFRESH_TOKEN ("" = not set)
    dashFile,   \* web/dashboard_data.json
    rh,         \* the /refresh_dashboard handler
    fs,         \* the running fetchItemSnapshot call
    terminals   \* history: per item, the next_cursors upstream returned with
                \* has_more = false

vars == <<items, cursors, upLen, hs, exchResp, envToken, dashFile, rh, fs, terminals>>

(***************************** bounds **************************************)
MaxPage  == 2   \* most transactions upstream puts in one transactionsGet page
MaxTx    == 2   \* most transactions accumulated by one snapshot
MaxTotal == 3   \* largest total_transactions upstream reports
MaxUp    == 2   \* most updates upstream holds for one item
MaxUpAll == 3   \* most updates upstream holds for all items, with requests in flight together

(************************ JavaScript helpers *******************************)
None == <<>>
Some(v) == <<v>>

\* a || b on strings
OrStr(a, b) == IF a = "" THEN b ELSE a

\* opt ?? d  and  opt || d  for a nullable object, array or number
OrElse(opt, d) == IF opt = None THEN d ELSE opt[1]

\* arr.map(f)
Map(f(_), s) == [k \in 1..Len(s) |-> f(s[k])]

RECURSIVE FlatMap(_, _)
\* arr.flatMap(f)
FlatMap(f(_), s) == IF s = <<>> THEN <<>> ELSE f(Head(s)) \o FlatMap(f, Tail(s))

RECURSIVE Filter(_, _)
\* arr.filter(f)
Filter(f(_), s) ==
    IF s = <<>> THEN <<>>
    ELSE (IF f(Head(s)) THEN <<Head(s)>> ELSE <<>>) \o Filter(f, Tail(s))

\* all sequences over S of length at most n
SeqsUpTo(S, n) == UNION {[1..k -> S] : k \in 0..n}

(************************** the database ***********************************)
ItemIds == {"I1", "I2"}

\* rows the items table can hold after two exchanges
LinkedRows ==
    << [item_id |-> "I1", access_token |-> "tokA", institution_name |-> "BankA"],
       [item_id |-> "I2", access_token |-> "tokB", institution_name |-> ""] >>

ItemTables == {SubSeq(LinkedRows, 1, n) : n \in 0..Len(LinkedRows)}

\* getAccessTokens.all()
GetAccessTokens == items

\* getOneItem.get(item_id): None or Some(row)
GetOneItem(item_id) ==
    LET hit == Filter(LAMBDA r : r.item_id = item_id, items)
    IN  IF hit = <<>> THEN None ELSE Some(hit[1])

\* (mutant) INSERT OR REPLACE: a duplicate item_id replaces the stored row
InsertItem_Replace(tbl, row) ==
    Append(Filter(LAMBDA r : r.item_id # row.item_id, tbl), row)

\* insertItem.run(row): INSERT OR IGNORE on the UNIQUE column item_id
InsertItem(tbl, row) ==
    IF \E k \in 1..Len(tbl) : tbl[k].item_id = row.item_id
    THEN tbl
    ELSE Append(tbl, row)

\* the cursors table has no row for the item
NoRow == -2
\* JavaScript null / undefined, SQL NULL
NullCursor == -1
\* the empty string, which upstream uses as the cursor of the very beginning
EmptyCursor == 0

\* x || null  and  x || undefined  on a cursor: every falsy value becomes null
OrNull(c) == IF c \in {NoRow, NullCursor, EmptyCursor} THEN NullCursor ELSE c

\* (mutant) the stored cursor is not read
GetCursorOrNull_Ignored(item_id) == NullCursor

\* getCursor.get(item_id)?.cursor || null
GetCursorOrNull(item_id) == OrNull(cursors[item_id])

\* upsertCursor.run({item_id, cursor})
UpsertCursor(tbl, item_id, cursor) == [tbl EXCEPT ![item_id] = cursor]

(****************** upstream: /transactions/sync ***************************)
(* Upstream holds, per item, a log of upLen[i] updates.  A cursor is the   *)
(* position reached in the log (the empty string or no cursor: position    *)
(* 0).  A call answers with some of the updates after the position, the    *)
(* cursor after them, and has_more = whether updates remain.               *)
SyncCount == 500

\* the k-th update of a log is an added, a modified or a removed transaction
KindOf(k) == IF k % 3 = 1 THEN "added" ELSE IF k % 3 = 2 THEN "modified" ELSE "removed"

PosOf(reqCursor) == IF reqCursor = NullCursor THEN 0 ELSE reqCursor

\* how many updates a call at position pos may return
SyncBatchSizes(item_id, pos) ==
    IF upLen[item_id] <= pos THEN {0}
    ELSE {n \in 1..(upLen[item_id] - pos) : n <= SyncCount}

\* d = resp.data of a call at position pos that returns n updates
SyncData(item_id, pos, n) ==
    [added       |-> Cardinality({k \in (pos+1)..(pos+n) : KindOf(k) = "added"}),
     modified    |-> Cardinality({k \in (pos+1)..(pos+n) : KindOf(k) = "modified"}),
     removed     |-> Cardinality({k \in (pos+1)..(pos+n) : KindOf(k) = "removed"}),
     next_cursor |-> pos + n,
     has_more    |-> pos + n < upLen[item_id]]

\* the history of terminal cursors after upstream answered d to a call for item_id
Returned(hist, item_id, d) ==
    IF d.has_more THEN hist ELSE [hist EXCEPT ![item_id] = @ \cup {d.next_cursor}]

\* upstream receives a new update for an item
UpstreamUpdate(i) ==
    /\ upLen[i] < MaxUp
    /\ upLen' = [upLen EXCEPT ![i] = @ + 1]
    /\ UNCHANGED <<items, cursors, hs, exchResp, envToken, dashFile, rh, fs, terminals>>

(******************* POST /api/exchange_public_token ***********************)
PublicTokens == {"", "public-1"}
AccessTokens == {"tokA", "tokB"}
InstitutionNames == {"", "BankA", "BankB"}

NoExchange == [status |-> 0, error |-> "", item_id |-> "", exchanged |-> ""]

\* exchanged: the item_id upstream returned for the public token ("" when
\* the exchange was not made or failed)
ExchangePublicToken(public_token, institution_name) ==
    /\ \/ /\ public_token = ""
          /\ exchResp' = [status |-> 400, error |-> "missing_public_token",
                          item_id |-> "", exchanged |-> ""]
          /\ items' = items
       \/ /\ public_token # ""
          /\ \/ /\ exchResp' = [status |-> 500, error |-> "exchange_failed",
                                item_id |-> "", exchanged |-> ""]
                /\ items' = items
             \/ \E access_token \in AccessTokens, item_id \in ItemIds :
                   /\ items' = InsertItem(items,
                                   [item_id |-> item_id, access_token |-> access_token,
                                    institution_name |-> OrStr(institution_name, "")])
                   /\ exchResp' = [status |-> 200, error |-> "",
                                   item_id |-> item_id, exchanged |-> item_id]
    /\ UNCHANGED <<cursors, upLen, hs, envToken, dashFile, rh, fs, terminals>>

(************ POST /api/transactions/sync and /sync-all ********************)
(* A handler runs from one await to the next in one step: a step starts    *)
(* the request and issues the first transactionsSync call, and each later  *)
(* step takes the outcome of the call in flight (a response or a throw)    *)
(* and runs to the next call or to the HTTP response.                      *)
(*                                                                         *)
(* History fields of a request, not read by the handler:                   *)
(* Fields of a request: pc, kind; the locals item_id, rows, idx (the loop  *)
(* over rows), cursor, hasMore, added, modified, removed, summary;         *)
(* reqCursor, the                                                          *)
(* cursor sent with the call in flight; the response status, error, body   *)
(* (the items list of a sync-all answer) and total_added.                  *)
(*   calls        the transactionsSync calls answered for the current item *)
(*                (cursor sent, next_cursor and has_more received)         *)
(*   startRow     the item's cursors row when the request started          *)
(*   failedItems  the items whose transactionsSync call threw              *)
(*   persisted    the items for which upsertCursor ran                     *)
Procs == {"p1", "p2"}

\* the request slots that serve requests one at a time
SeqProcs == {"p1"}

IdleHandler ==
    [pc |-> "idle", kind |-> "none", item_id |-> "", rows |-> <<>>, idx |-> 0,
     cursor |-> NullCursor, hasMore |-> TRUE, reqCursor |-> NullCursor,
     added |-> 0, modified |-> 0, removed |-> 0,
     summary |-> <<>>, status |-> 0, error |-> "", body |-> <<>>, total_added |-> 0,
     calls |-> <<>>, startRow |-> NoRow, failedItems |-> {}, persisted |-> {}]

SyncUnchanged == <<items, upLen, exchResp, envToken, dashFile, rh, fs>>

\* lines 233-247: the request arrives; validation, the stored cursor, the first call
SyncStart(p, item_id) ==
    /\ hs[p].pc \in {"idle", "done"}
    /\ IF item_id = ""
       THEN hs' = [hs EXCEPT ![p] = [IdleHandler EXCEPT !.pc = "done", !.kind = "sync",
                                        !.status = 400, !.error = "missing_item_id"]]
       ELSE IF GetOneItem(item_id) = None
       THEN hs' = [hs EXCEPT ![p] = [IdleHandler EXCEPT !.pc = "done", !.kind = "sync",
                                        !.item_id = item_id,
                                        !.status = 404, !.error = "unknown_item"]]
       ELSE hs' = [hs EXCEPT ![p] = [IdleHandler EXCEPT !.pc = "await", !.kind = "sync",
                                        !.item_id = item_id,
                                        !.rows = <<GetOneItem(item_id)[1]>>, !.idx = 1,
                                        !.cursor = GetCursorOrNull(item_id),
                                        !.reqCursor = OrNull(GetCursorOrNull(item_id)),
                                        !.startRow = cursors[item_id]]]
    /\ UNCHANGED <<cursors, terminals>>
    /\ UNCHANGED SyncUnchanged

\* (mutant) cursor = d.next_cursor is missing: the cursor of the request is kept
SyncAccumulate_StaleCursor(h, d) ==
    [h EXCEPT !.added = @ + d.added,
              !.modified = @ + d.modified,
              !.removed = @ + d.removed,
              !.hasMore = d.has_more,
              !.calls = Append(@, [cursor |-> h.reqCursor,
                                   next_cursor |-> d.next_cursor,
                                   has_more |-> d.has_more])]

\* lines 248-253 (277-282 in sync-all): the locals after a response d to a call
\* that carried reqCursor
SyncAccumulate(h, d) ==
    [h EXCEPT !.added = @ + d.added,
              !.modified = @ + d.modified,
              !.removed = @ + d.removed,
              !.cursor = d.next_cursor,
              !.hasMore = d.has_more,
              !.calls = Append(@, [cursor |-> h.reqCursor,
                                   next_cursor |-> d.next_cursor,
                                   has_more |-> d.has_more])]

\* lines 242-247 (271-276): while (hasMore): the next call leaves with cursor || undefined
SyncCallAgain(acc) == [acc EXCEPT !.reqCursor = OrNull(acc.cursor)]

\* (mutant) upsertCursor runs inside the loop, after every page
SyncResponse_PersistEachPage(p) ==
    /\ hs[p].pc = "await" /\ hs[p].kind = "sync"
    /\ \E n \in SyncBatchSizes(hs[p].item_id, PosOf(hs[p].reqCursor)) :
          LET d == SyncData(hs[p].item_id, PosOf(hs[p].reqCursor), n)
              acc == SyncAccumulate(hs[p], d)
          IN  /\ terminals' = Returned(terminals, hs[p].item_id, d)
              /\ cursors' = UpsertCursor(cursors, acc.item_id, acc.cursor)
              /\ IF acc.hasMore
                 THEN hs' = [hs EXCEPT ![p] = SyncCallAgain(acc)]
                 ELSE hs' = [hs EXCEPT ![p] = [acc EXCEPT !.pc = "done", !.status = 200,
                                                         !.persisted = @ \cup {acc.item_id}]]
    /\ UNCHANGED SyncUnchanged

\* lines 248-256: a response arrives; accumulate, then call again or persist and answer
SyncResponse(p) ==
    /\ hs[p].pc = "await" /\ hs[p].kind = "sync"
    /\ \E n \in SyncBatchSizes(hs[p].item_id, PosOf(hs[p].reqCursor)) :
          LET d == SyncData(hs[p].item_id, PosOf(hs[p].reqCursor), n)
              acc == SyncAccumulate(hs[p], d)
          IN  /\ terminals' = Returned(terminals, hs[p].item_id, d)
              /\ IF acc.hasMore
                 THEN /\ hs' = [hs EXCEPT ![p] = SyncCallAgain(acc)]
                      /\ cursors' = cursors
                 ELSE /\ cursors' = UpsertCursor(cursors, acc.item_id, acc.cursor)
                      /\ hs' = [hs EXCEPT ![p] = [acc EXCEPT !.pc = "done", !.status = 200,
                                                         !.persisted = @ \cup {acc.item_id}]]
    /\ UNCHANGED SyncUnchanged

\* (mutant) the catch persists the cursor reached so far
SyncFailure_Persist(p) ==
    /\ hs[p].pc = "await" /\ hs[p].kind = "sync"
    /\ hs' = [hs EXCEPT ![p] = [@ EXCEPT !.pc = "done", !.status = 500,
                                        !.error = "sync_failed",
                                        !.failedItems = @ \cup {hs[p].item_id}]]
    /\ cursors' = UpsertCursor(cursors, hs[p].item_id, hs[p].cursor)
    /\ UNCHANGED terminals
    /\ UNCHANGED SyncUnchanged

\* lines 257-260: the call in flight throws
SyncFailure(p) ==
    /\ hs[p].pc = "await" /\ hs[p].kind = "sync"
    /\ hs' = [hs EXCEPT ![p] = [@ EXCEPT !.pc = "done", !.status = 500,
                                        !.error = "sync_failed",
                                        !.failedItems = @ \cup {hs[p].item_id}]]
    /\ UNCHANGED <<cursors, terminals>>
    /\ UNCHANGED SyncUnchanged

\* lines 269-276: the next item of the loop over rows: its stored cursor, its first call
\* (tbl: the cursors table as it is when the item is entered)
SyncAllEnter(h, k, tbl) ==
    [h EXCEPT !.idx = k, !.item_id = h.rows[k].item_id,
              !.cursor = OrNull(tbl[h.rows[k].item_id]),
              !.reqCursor = OrNull(OrNull(tbl[h.rows[k].item_id])),
              !.added = 0, !.modified = 0, !.removed = 0, !.hasMore = TRUE,
              !.calls = <<>>, !.startRow = tbl[h.rows[k].item_id]]

\* line 287: total_added over the summary
RECURSIVE TotalAdded(_)
TotalAdded(summary) ==
    IF summary = <<>> THEN 0 ELSE Head(summary).added + TotalAdded(Tail(summary))

\* lines 265-276: the request arrives; all rows are read, the first item's first call
SyncAllStart(p) ==
    /\ hs[p].pc \in {"idle", "done"}
    /\ LET h0 == [IdleHandler EXCEPT !.kind = "sync_all", !.rows = GetAccessTokens]
       IN  IF h0.rows = <<>>
           THEN hs' = [hs EXCEPT ![p] = [h0 EXCEPT !.pc = "done", !.status = 200]]
           ELSE hs' = [hs EXCEPT ![p] = [SyncAllEnter(h0, 1, cursors) EXCEPT !.pc = "await"]]
    /\ UNCHANGED <<cursors, terminals>>
    /\ UNCHANGED SyncUnchanged

\* lines 284-285: the cursor is persisted and the item's summary entry pushed
SyncAllPush(acc) ==
    [acc EXCEPT !.summary = Append(@, [item_id |-> acc.item_id, added |-> acc.added,
                                       modified |-> acc.modified, removed |-> acc.removed]),
                !.persisted = @ \cup {acc.item_id}]

\* lines 277-287: a response arrives; accumulate, then call again, or persist, push
\* the item's summary entry and go on to the next item or answer
SyncAllResponse(p) ==
    /\ hs[p].pc = "await" /\ hs[p].kind = "sync_all"
    /\ \E n \in SyncBatchSizes(hs[p].item_id, PosOf(hs[p].reqCursor)) :
          LET d == SyncData(hs[p].item_id, PosOf(hs[p].reqCursor), n)
              acc == SyncAccumulate(hs[p], d)
              pushed == SyncAllPush(acc)
          IN  /\ terminals' = Returned(terminals, hs[p].item_id, d)
              /\ IF acc.hasMore
                 THEN /\ hs' = [hs EXCEPT ![p] = SyncCallAgain(acc)]
                      /\ cursors' = cursors
                 ELSE /\ cursors' = UpsertCursor(cursors, acc.item_id, acc.cursor)
                      /\ IF acc.idx < Len(acc.rows)
                         THEN hs' = [hs EXCEPT ![p] = SyncAllEnter(pushed, acc.idx + 1, cursors')]
                         ELSE hs' = [hs EXCEPT ![p] =
                                        [pushed EXCEPT !.pc = "done", !.status = 200,
                                                       !.body = pushed.summary,
                                                       !.total_added = TotalAdded(pushed.summary)]]
    /\ UNCHANGED SyncUnchanged

\* lines 288-291: the call in flight throws: the catch around the whole loop answers
SyncAllFailure(p) ==
    /\ hs[p].pc = "await" /\ hs[p].kind = "sync_all"
    /\ hs' = [hs EXCEPT ![p] = [@ EXCEPT !.pc = "done", !.status = 500,
                                        !.error = "sync_all_failed",
                                        !.failedItems = @ \cup {hs[p].item_id}]]
    /\ UNCHANGED <<cursors, terminals>>
    /\ UNCHANGED SyncUnchanged

(************************ upstream: snapshot data **************************)
PageSize == 500

acctA ==
    [account_id |-> "a1", name |-> "Checking", official_name |-> "Everyday Checking",
     mask |-> "1111", type |-> "depository", subtype |-> "checking", balances |-> "b1"]
\* an account without name, official name, subtype and balances
acctB ==
    [account_id |-> "a2", name |-> "", official_name |-> "",
     mask |-> "2222", type |-> "credit", subtype |-> "", balances |-> ""]

AccountLists == {<<>>, <<acctA, acctB>>}

\* resp.data.accounts of accountsBalanceGet / accountsGet: a list, or undefined
AccountsResponses == {None} \cup {Some(l) : l \in AccountLists}

\* L.data.liabilities of liabilitiesGet: undefined, or the three lists
liabSample ==
    [credit   |-> << [account_id |-> "a2", apr_percentage |-> Some(1999),
                      minimum_payment_amount |-> None,
                      next_payment_due_date |-> Some("2026-12-01")] >>,
     student  |-> << [account_id |-> "a1", interest_rate_percentage |-> None,
                      minimum_payment_amount |-> Some(50),
                      next_payment_due_date |-> None] >>,
     mortgage |-> << [account_id |-> "a1", interest_rate_percentage |-> None,
                      next_monthly_payment |-> Some(1200),
                      next_payment_due_date |-> None] >>]

LiabilitiesResponses == {None, Some(liabSample)}

t1 ==
    [account_id |-> "a1", date |-> "2026-10-01", name |-> "Coffee", merchant_name |-> "",
     payee |-> "", amount |-> 5, category |-> Some(<<"Food">>)]
\* a transaction of an account the item does not list, without name and category
t2 ==
    [account_id |-> "a9", date |-> "2026-10-02", name |-> "", merchant_name |-> "ACME",
     payee |-> "", amount |-> -20, category |-> None]

TxSamples == {t1, t2}

\* resp.data.transactions of one transactionsGet page
Pages == {pg \in SeqsUpTo(TxSamples, MaxPage) : Len(pg) <= PageSize}

(*************************** fetchItemSnapshot *****************************)
(* pc: "balance", "accounts", "liab": awaiting accountsBalanceGet,         *)
(* accountsGet, liabilitiesGet; "tx_req": a transactionsGet request is at  *)
(* upstream; "tx_resp": its outcome (resp) is on the way back;             *)
(* "returned": the promise is settled with result, or rejected (thrown).   *)
(* History fields, not read by the code: balFailed, accFailed, liabCalled, *)
(* liabFailed, txCalled, txFailed (which calls were made / threw) and      *)
(* received (the transactions of the pages that were answered, in order).  *)
NoResp == [ok |-> FALSE, transactions |-> <<>>, total_transactions |-> 0]

NoResult == [accounts |-> <<>>, transactions |-> <<>>, error |-> ""]

IdleFetch ==
    [pc |-> "idle", row |-> [item_id |-> "", access_token |-> "", institution_name |-> ""],
     accounts |-> None, liabByAccount |-> <<>>, tx |-> <<>>, total |-> 0, offset |-> 0,
     resp |-> NoResp, result |-> NoResult, thrown |-> FALSE,
     balFailed |-> FALSE, accFailed |-> FALSE, liabCalled |-> FALSE, liabFailed |-> FALSE,
     txCalled |-> FALSE, txFailed |-> FALSE, received |-> <<>>]

\* lines 64-72: the call runs to its first await, of accountsBalanceGet
FetchStart(row) == [IdleFetch EXCEPT !.pc = "balance", !.row = row]

\* line 78: a => ({ ...a, balances: a.balances || {} })
DefaultBalances(a) == [a EXCEPT !.balances = OrStr(a.balances, "{}")]

\* lines 90-110: the entries assigned into liabByAccount, in assignment order
LiabEntries(liabilities) ==
    LET L == OrElse(liabilities, [credit |-> <<>>, student |-> <<>>, mortgage |-> <<>>])
        credit(c) == [account_id |-> c.account_id,
                      liab |-> [apr_percentage |-> c.apr_percentage,
                                minimum_payment_amount |-> c.minimum_payment_amount,
                                next_payment_due_date |-> c.next_payment_due_date]]
        student(st) == [account_id |-> st.account_id,
                        liab |-> [apr_percentage |-> st.interest_rate_percentage,
                                  minimum_payment_amount |-> st.minimum_payment_amount,
                                  next_payment_due_date |-> st.next_payment_due_date]]
        mortgage(m) == [account_id |-> m.account_id,
                        liab |-> [apr_percentage |-> Some(OrElse(m.interest_rate_percentage, 0)),
                                  minimum_payment_amount |-> m.next_monthly_payment,
                                  next_payment_due_date |-> m.next_payment_due_date]]
    IN  Map(credit, L.credit) \o Map(student, L.student) \o Map(mortgage, L.mortgage)

\* the last value assigned under a key: s is a sequence of records with field account_id
LastFor(s, id) ==
    LET ks == {k \in 1..Len(s) : s[k].account_id = id}
    IN  s[CHOOSE k \in ks : \A j \in ks : j <= k]

\* liabByAccount[e.account_id] = e.liab on an object kept as its list of entries
AssignEntry(m, e) ==
    IF \E k \in 1..Len(m) : m[k].account_id = e.account_id
    THEN [k \in 1..Len(m) |-> IF m[k].account_id = e.account_id THEN e ELSE m[k]]
    ELSE Append(m, e)

RECURSIVE AssignAll(_, _)
AssignAll(m, es) == IF es = <<>> THEN m ELSE AssignAll(AssignEntry(m, Head(es)), Tail(es))

\* liabByAccount after the three forEach loops
LiabByAccount(liabilities) == AssignAll(<<>>, LiabEntries(liabilities))

\* liabByAccount[id] || null
LiabilityOf(liabByAccount, id) ==
    IF \E k \in 1..Len(liabByAccount) : liabByAccount[k].account_id = id
    THEN Some(LastFor(liabByAccount, id).liab)
    ELSE None

\* lines 137-146
ShapeAccount(a, instName, liabByAccount) ==
    [institution |-> instName,
     name        |-> OrStr(a.name, OrStr(a.official_name, OrStr(a.mask, a.account_id))),
     nickname    |-> OrStr(a.official_name, ""),
     mask        |-> OrStr(a.mask, ""),
     type        |-> OrStr(a.type, ""),
     subtype     |-> OrStr(a.subtype, ""),
     balances    |-> OrStr(a.balances, "{}"),
     liability   |-> LiabilityOf(liabByAccount, a.account_id)]

\* lines 149-159; acctMap (line 115) keeps the last account of each account_id
ShapeTx(t, instName, accounts) ==
    LET known == \E k \in 1..Len(accounts) : accounts[k].account_id = t.account_id
        a == LastFor(accounts, t.account_id)
    IN  [date        |-> t.date,
         name        |-> OrStr(t.name, OrStr(t.merchant_name, OrStr(t.payee, ""))),
         amount      |-> t.amount,
         category    |-> OrElse(t.category, <<>>),
         institution |-> instName,
         nickname    |-> IF known THEN OrStr(a.name, OrStr(a.official_name, "")) ELSE ""]

\* lines 116, 136-161: shape what was gathered and return it
FetchReturn(f) ==
    LET instName == OrStr(f.row.institution_name, "")
        accts == f.accounts[1]
    IN  [f EXCEPT !.pc = "returned",
                  !.result = [accounts |-> Map(LAMBDA a : ShapeAccount(a, instName, f.liabByAccount), accts),
                              transactions |-> Map(LAMBDA t : ShapeTx(t, instName, accts), f.tx),
                              error |-> ""]]

\* lines 115-127: after the liabilities step; accounts.map throws when accounts is
\* undefined, else the first transactionsGet request leaves
AfterLiabilities(f) ==
    IF f.accounts = None
    THEN [f EXCEPT !.pc = "returned", !.thrown = TRUE]
    ELSE [f EXCEPT !.pc = "tx_req", !.tx = <<>>, !.total = 0, !.offset = 0, !.txCalled = TRUE]

FetchUnchanged == <<items, cursors, upLen, hs, exchResp, envToken, dashFile, rh, terminals>>

\* line 73: accountsBalanceGet answers; line 89: liabilitiesGet is called
BalanceOK ==
    /\ fs.pc = "balance"
    /\ \E accounts \in AccountsResponses :
          fs' = [fs EXCEPT !.accounts = accounts, !.pc = "liab", !.liabCalled = TRUE]
    /\ UNCHANGED FetchUnchanged

\* lines 74-77: accountsBalanceGet throws; accountsGet is called
BalanceFail ==
    /\ fs.pc = "balance"
    /\ fs' = [fs EXCEPT !.balFailed = TRUE, !.pc = "accounts"]
    /\ UNCHANGED FetchUnchanged

\* line 78: accountsGet answers; line 89: liabilitiesGet is called
AccountsOK ==
    /\ fs.pc = "accounts"
    /\ \E accounts \in AccountsResponses :
          fs' = [fs EXCEPT !.accounts = Some(Map(DefaultBalances, OrElse(accounts, <<>>))),
                           !.pc = "liab", !.liabCalled = TRUE]
    /\ UNCHANGED FetchUnchanged

\* lines 79-83: accountsGet throws too
AccountsFail ==
    /\ fs.pc = "accounts"
    /\ fs' = [fs EXCEPT !.accFailed = TRUE, !.pc = "returned",
                        !.result = [accounts |-> <<>>, transactions |-> <<>>,
                                    error |-> "accounts_failed"]]
    /\ UNCHANGED FetchUnchanged

\* lines 89-110: liabilitiesGet answers
LiabilitiesOK ==
    /\ fs.pc = "liab"
    /\ \E liabilities \in LiabilitiesResponses :
          fs' = AfterLiabilities([fs EXCEPT !.liabByAccount = LiabByAccount(liabilities)])
    /\ UNCHANGED FetchUnchanged

\* (mutant) a liabilities failure ends the snapshot with an error marker
LiabilitiesFail_Surfaced ==
    /\ fs.pc = "liab"
    /\ fs' = [fs EXCEPT !.liabFailed = TRUE, !.pc = "returned",
                        !.result = [accounts |-> <<>>, transactions |-> <<>>,
                                    error |-> "liabilities_failed"]]
    /\ UNCHANGED FetchUnchanged

\* lines 111-113: liabilitiesGet throws
LiabilitiesFail ==
    /\ fs.pc = "liab"
    /\ fs' = AfterLiabilities([fs EXCEPT !.liabFailed = TRUE])
    /\ UNCHANGED FetchUnchanged

\* upstream answers the transactionsGet request in flight with a page and a total
TransactionsGetOK ==
    /\ fs.pc = "tx_req"
    /\ \E page \in Pages, total \in 0..MaxTotal :
          /\ Len(fs.tx) + Len(page) <= MaxTx
          /\ fs' = [fs EXCEPT !.pc = "tx_resp",
                              !.resp = [ok |-> TRUE, transactions |-> page,
                                        total_transactions |-> total]]
    /\ UNCHANGED FetchUnchanged

\* upstream (or the network) fails the transactionsGet request in flight
TransactionsGetFail ==
    /\ fs.pc = "tx_req"
    /\ fs' = [fs EXCEPT !.pc = "tx_resp", !.resp = NoResp]
    /\ UNCHANGED FetchUnchanged

\* (mutant) a failed page request is sent again
TransactionsPage_Retry ==
    /\ fs.pc = "tx_resp"
    /\ IF fs.resp.ok
       THEN LET f == [fs EXCEPT !.total = fs.resp.total_transactions,
                                !.tx = @ \o fs.resp.transactions,
                                !.offset = @ + Len(fs.resp.transactions),
                                !.received = @ \o fs.resp.transactions,
                                !.resp = NoResp]
            IN  IF f.offset < f.total
                THEN fs' = [f EXCEPT !.pc = "tx_req"]
                ELSE fs' = FetchReturn(f)
       ELSE fs' = [fs EXCEPT !.txFailed = TRUE, !.pc = "tx_req"]
    /\ UNCHANGED FetchUnchanged

\* lines 128-131: a page arrives: take it, then request the next page or return
\* lines 132-134: the request threw: return with what was accumulated
TransactionsPage ==
    /\ fs.pc = "tx_resp"
    /\ IF fs.resp.ok
       THEN LET f == [fs EXCEPT !.total = fs.resp.total_transactions,
                                !.tx = @ \o fs.resp.transactions,
                                !.offset = @ + Len(fs.resp.transactions),
                                !.received = @ \o fs.resp.transactions,
                                !.resp = NoResp]
            IN  IF f.offset < f.total
                THEN fs' = [f EXCEPT !.pc = "tx_req"]
                ELSE fs' = FetchReturn(f)
       ELSE fs' = FetchReturn([fs EXCEPT !.txFailed = TRUE])
    /\ UNCHANGED FetchUnchanged

(************************ POST /refresh_dashboard **************************)
(* pc: "refresh": awaiting transactionsRefresh for items[idx]; "snapshot": *)
(* awaiting fetchItemSnapshot(items[idx]); "write": awaiting fs.writeFile; *)
(* "done": answered.  The file's last_updated timestamp is left out.       *)
(* History fields, not read by the code: fileBefore (the file when the     *)
(* request arrived), outbound (the kinds of outbound call made so far),    *)
(* outcomes (per pushed snapshot: "ok", "accounts_failed" when both        *)
(* accounts calls threw, "thrown" when fetchItemSnapshot rejected) and     *)
(* writeFailed.                                                            *)
RefreshHeaders == {"", "s3cret", "wrong"}
RefreshSecrets == {"", "s3cret"}

EmptyOut == [accounts |-> <<>>, transactions |-> <<>>, errors |-> <<>>]

\* the file: absent, holding the JSON of data, or cut short by a failed write
FileStates ==
    {[state |-> "absent", data |-> EmptyOut], [state |-> "json", data |-> EmptyOut]}

IdleRefresh ==
    [pc |-> "idle", hdr |-> "", items |-> <<>>, idx |-> 0, snapshots |-> <<>>,
     out |-> EmptyOut, status |-> 0, error |-> "",
     body |-> [accounts |-> 0, transactions |-> 0, errors |-> 0],
     fileBefore |-> [state |-> "absent", data |-> EmptyOut],
     outbound |-> {}, outcomes |-> <<>>, writeFailed |-> FALSE]

\* (mutant) the check that a secret is configured at all is missing
Unauthorized_SkipsUnset(hdr) == hdr # envToken

\* line 487
Unauthorized(hdr) == envToken = "" \/ hdr # envToken

\* lines 511-515: the output object is built and fs.writeFile is called
BuildAndWrite(r) ==
    [r EXCEPT !.pc = "write",
              !.out = [accounts     |-> FlatMap(LAMBDA sn : sn.accounts, r.snapshots),
                       transactions |-> FlatMap(LAMBDA sn : sn.transactions, r.snapshots),
                       errors       |-> Filter(LAMBDA sn : sn.error # "", r.snapshots)],
              !.outbound = @ \cup {"writeFile"}]

\* lines 500-503: the loop over items calls fetchItemSnapshot for items[k]
CallSnapshot(r, k) ==
    [r EXCEPT !.pc = "snapshot", !.idx = k, !.outbound = @ \cup {"fetchItemSnapshot"}]

RefreshUnchanged == <<items, cursors, upLen, hs, exchResp, envToken, terminals>>

\* lines 485-494: the request arrives: the secret is checked, the items are read and
\* the first transactionsRefresh is called (with no items: the file is written)
RefreshRequest(hdr) ==
    /\ rh.pc = "idle"
    /\ LET r0 == [IdleRefresh EXCEPT !.hdr = OrStr(hdr, ""), !.fileBefore = dashFile]
       IN  IF Unauthorized(r0.hdr)
           THEN rh' = [r0 EXCEPT !.pc = "done", !.status = 401, !.error = "unauthorized"]
           ELSE IF GetAccessTokens = <<>>
           THEN rh' = BuildAndWrite([r0 EXCEPT !.items = GetAccessTokens])
           ELSE rh' = [r0 EXCEPT !.pc = "refresh", !.items = GetAccessTokens, !.idx = 1,
                                 !.outbound = {"transactionsRefresh"}]
    /\ UNCHANGED <<dashFile, fs>>
    /\ UNCHANGED RefreshUnchanged

\* lines 493-503: after the transactionsRefresh of items[idx]: the next one, or the
\* first fetchItemSnapshot
AfterRefresh(r) ==
    IF r.idx < Len(r.items)
    THEN /\ rh' = [r EXCEPT !.idx = @ + 1]
         /\ fs' = fs
    ELSE /\ rh' = CallSnapshot([r EXCEPT !.snapshots = <<>>], 1)
         /\ fs' = FetchStart(r.items[1])

\* line 494: transactionsRefresh answers
TransactionsRefreshOK ==
    /\ rh.pc = "refresh"
    /\ AfterRefresh(rh)
    /\ UNCHANGED dashFile
    /\ UNCHANGED RefreshUnchanged

\* lines 494-496: transactionsRefresh throws: logged, ignored
TransactionsRefreshFail ==
    /\ rh.pc = "refresh"
    /\ AfterRefresh(rh)
    /\ UNCHANGED dashFile
    /\ UNCHANGED RefreshUnchanged

\* (mutant) the catch pushes the empty entry without the snapshot_failed marker
SnapshotEntry_Unmarked(r, f) ==
    IF f.thrown
    THEN [item_id |-> r.items[r.idx].item_id, accounts |-> <<>>, transactions |-> <<>>,
          error |-> ""]
    ELSE [item_id |-> r.items[r.idx].item_id, accounts |-> f.result.accounts,
          transactions |-> f.result.transactions, error |-> f.result.error]

\* lines 504 / 507: the entry pushed for items[idx]
SnapshotEntry(r, f) ==
    IF f.thrown
    THEN [item_id |-> r.items[r.idx].item_id, accounts |-> <<>>, transactions |-> <<>>,
          error |-> "snapshot_failed"]
    ELSE [item_id |-> r.items[r.idx].item_id, accounts |-> f.result.accounts,
          transactions |-> f.result.transactions, error |-> f.result.error]

\* lines 503-515: fetchItemSnapshot has settled: push the entry, then the next item's
\* snapshot, or build the output and write the file
SnapshotSettled ==
    /\ rh.pc = "snapshot" /\ fs.pc = "returned"
    /\ LET r == [rh EXCEPT !.snapshots = Append(@, SnapshotEntry(rh, fs)),
                           !.outcomes = Append(@, IF fs.thrown THEN "thrown"
                                                  ELSE IF fs.balFailed /\ fs.accFailed
                                                       THEN "accounts_failed" ELSE "ok")]
       IN  IF r.idx < Len(r.items)
           THEN /\ rh' = CallSnapshot(r, r.idx + 1)
                /\ fs' = FetchStart(r.items[r.idx + 1])
           ELSE /\ rh' = BuildAndWrite(r)
                /\ fs' = IdleFetch
    /\ UNCHANGED dashFile
    /\ UNCHANGED RefreshUnchanged

\* lines 515-516: the file is replaced, the request answered
WriteFileOK ==
    /\ rh.pc = "write"
    /\ dashFile' = [state |-> "json", data |-> rh.out]
    /\ rh' = [rh EXCEPT !.pc = "done", !.status = 200,
                        !.body = [accounts |-> Len(rh.out.accounts),
                                  transactions |-> Len(rh.out.transactions),
                                  errors |-> Len(rh.out.errors)]]
    /\ UNCHANGED fs
    /\ UNCHANGED RefreshUnchanged

\* lines 517-520: fs.writeFile throws; the file is as it was, or cut short
WriteFileFail ==
    /\ rh.pc = "write"
    /\ dashFile' \in {dashFile, [state |-> "corrupt", data |-> EmptyOut]}
    /\ rh' = [rh EXCEPT !.pc = "done", !.status = 500, !.error = "refresh_dashboard_failed",
                        !.writeFailed = TRUE]
    /\ UNCHANGED fs
    /\ UNCHANGED RefreshUnchanged

(**************************** specifications *******************************)
TypeIdle ==
    /\ hs = [p \in Procs |-> IdleHandler]
    /\ exchResp = NoExchange
    /\ rh = IdleRefresh
    /\ fs = IdleFetch

\* the sync handlers, one request at a time, against a changing upstream
Init ==
    /\ items \in ItemTables
    /\ cursors = [i \in ItemIds |-> NoRow]
    /\ upLen = [i \in ItemIds |-> 0]
    /\ terminals = [i \in ItemIds |-> {}]
    /\ envToken = ""
    /\ dashFile = [state |-> "absent", data |-> EmptyOut]
    /\ TypeIdle

Next ==
    \/ \E i \in ItemIds : UpstreamUpdate(i)
    \/ \E p \in SeqProcs, item_id \in ItemIds \cup {""} : SyncStart(p, item_id)
    \/ \E p \in SeqProcs : SyncResponse(p)
    \/ \E p \in SeqProcs : SyncFailure(p)
    \/ \E p \in SeqProcs : SyncAllStart(p)
    \/ \E p \in SeqProcs : SyncAllResponse(p)
    \/ \E p \in SeqProcs : SyncAllFailure(p)

Spec == Init /\ [][Next]_vars

\* the sync handlers with requests in flight at the same time: every request
\* slot runs its handler, and the steps of the slots interleave at the awaits
RECURSIVE SumOver(_, _)
SumOver(f, S) ==
    IF S = {} THEN 0
    ELSE LET x == CHOOSE y \in S : TRUE IN f[x] + SumOver(f, S \ {x})

\* upstream receives a new update for an item, up to MaxUpAll updates in all
ConcUpstreamUpdate(i) ==
    /\ SumOver(upLen, ItemIds) < MaxUpAll
    /\ UpstreamUpdate(i)

ConcNext ==
    \/ \E i \in ItemIds : ConcUpstreamUpdate(i)
    \/ \E p \in Procs, item_id \in ItemIds \cup {""} : SyncStart(p, item_id)
    \/ \E p \in Procs : SyncResponse(p)
    \/ \E p \in Procs : SyncFailure(p)
    \/ \E p \in Procs : SyncAllStart(p)
    \/ \E p \in Procs : SyncAllResponse(p)
    \/ \E p \in Procs : SyncAllFailure(p)

ConcSpec == Init /\ [][ConcNext]_vars

\* linking items
ExchInit ==
    /\ items = <<>>
    /\ cursors = [i \in ItemIds |-> NoRow]
    /\ upLen = [i \in ItemIds |-> 0]
    /\ terminals = [i \in ItemIds |-> {}]
    /\ envToken = ""
    /\ dashFile = [state |-> "absent", data |-> EmptyOut]
    /\ TypeIdle

ExchNext ==
    \E public_token \in PublicTokens, institution_name \in InstitutionNames :
        ExchangePublicToken(public_token, institution_name)

ExchSpec == ExchInit /\ [][ExchNext]_vars

\* one dashboard refresh request
SnapInit ==
    /\ items \in ItemTables
    /\ cursors = [i \in ItemIds |-> NoRow]
    /\ upLen = [i \in ItemIds |-> 0]
    /\ terminals = [i \in ItemIds |-> {}]
    /\ envToken \in RefreshSecrets
    /\ dashFile \in FileStates
    /\ TypeIdle

SnapNext ==
    \/ \E hdr \in RefreshHeaders : RefreshRequest(hdr)
    \/ TransactionsRefreshOK
    \/ TransactionsRefreshFail
    \/ BalanceOK
    \/ BalanceFail
    \/ AccountsOK
    \/ AccountsFail
    \/ LiabilitiesOK
    \/ LiabilitiesFail
    \/ TransactionsGetOK
    \/ TransactionsGetFail
    \/ TransactionsPage
    \/ SnapshotSettled
    \/ WriteFileOK
    \/ WriteFileFail

SnapSpec == SnapInit /\ [][SnapNext]_vars

\* the same, with every pending step eventually taken: the event loop runs every
\* continuation and upstream settles every call
SnapFairSpec == SnapSpec /\ WF_vars(SnapNext)

(******************************* claims ************************************)

\* C1 (as claimed): for every sequence of upstream page responses the pagination
\* loop of fetchItemSnapshot eventually stops; it never stops after an answered
\* page while the accumulated count is below the reported total; and every
\* answered page is in the result.
C1_PaginationTerminates ==
    /\ (fs.pc = "tx_req") ~> (fs.pc \notin {"tx_req", "tx_resp"})
    /\ [](fs.pc = "returned" /\ fs.txCalled /\ ~fs.txFailed => ~(fs.offset < fs.total))
    /\ [](fs.pc = "returned" /\ fs.txCalled => fs.tx = fs.received)

Last(s) == s[Len(s)]

\* a request of the single-item sync handler that passed validation
IsSync(h) == h.kind = "sync" /\ h.rows # <<>>

\* C2: when a transactionsSync call of the single-item sync handler throws, at
\* whatever iteration, the answer is 500 and the item's cursors row is what it was
\* when the request arrived (no row created, no intermediate next_cursor stored).
C2_FailedSyncKeepsCursor ==
    \A p \in Procs :
        IsSync(hs[p]) /\ hs[p].pc = "done" /\ hs[p].failedItems # {}
            => /\ hs[p].status = 500
               /\ hs[p].persisted = {}
               /\ cursors[hs[p].item_id] = hs[p].startRow

\* C2 witness: a sync of an item without a cursors row fails after a first
\* response with has_more = true
C2_Witness ==
    \E p \in Procs :
        /\ IsSync(hs[p]) /\ hs[p].pc = "done" /\ hs[p].status = 500
        /\ hs[p].startRow = NoRow
        /\ Len(hs[p].calls) >= 1 /\ Last(hs[p].calls).has_more

\* C3 (as claimed): when a transactionsSync call fails for one of several linked
\* items during sync-all, every other item the handler read is still synced and
\* has its cursor persisted, and the answer holds an entry for every item (the
\* failure in the failed item's own entry).
C3_SyncAllIsolatesFailures ==
    \A p \in Procs :
        /\ hs[p].kind = "sync_all" /\ hs[p].pc = "done"
        /\ Len(hs[p].rows) >= 2 /\ hs[p].failedItems # {}
        => \A k \in 1..Len(hs[p].rows) :
              /\ hs[p].rows[k].item_id \notin hs[p].failedItems
                    => hs[p].rows[k].item_id \in hs[p].persisted
              /\ \E j \in 1..Len(hs[p].body) :
                    hs[p].body[j].item_id = hs[p].rows[k].item_id

\* C5: a sync of an item without a stored cursor sends its first call without a
\* cursor, sends every later call with the next_cursor just returned, calls again
\* exactly while has_more is true, and at the first response with has_more false
\* answers 200 having stored that response's next_cursor, which is not null.
C5_FirstSyncFromBeginning ==
    \A p \in Procs :
        LET h == hs[p]
            c == h.calls
        IN  IsSync(h) /\ OrNull(h.startRow) = NullCursor
            => /\ c # <<>> => c[1].cursor = NullCursor
               /\ \A k \in 2..Len(c) : c[k].cursor = c[k-1].next_cursor /\ c[k-1].has_more
               /\ h.pc = "await" =>
                     /\ h.reqCursor = (IF c = <<>> THEN NullCursor ELSE Last(c).next_cursor)
                     /\ c # <<>> => Last(c).has_more
                     /\ cursors[h.item_id] = h.startRow
               /\ h.pc = "done" /\ h.failedItems = {} =>
                     /\ c # <<>> /\ ~Last(c).has_more
                     /\ h.status = 200
                     /\ cursors[h.item_id] = Last(c).next_cursor
                     /\ cursors[h.item_id] \notin {NoRow, NullCursor}

\* C5 witness: a first sync that took two calls and stored the final cursor
C5_Witness ==
    \E p \in Procs :
        /\ IsSync(hs[p]) /\ hs[p].startRow = NoRow
        /\ hs[p].pc = "done" /\ hs[p].status = 200
        /\ Len(hs[p].calls) = 2
        /\ cursors[hs[p].item_id] = 2

\* C6: a sync that starts from a persisted cursor while upstream holds nothing
\* newer leaves the stored cursor at the same value, and when it answers 200 its
\* added, modified and removed counts are all 0.
C6_ResyncIsIdempotent ==
    \A p \in Procs :
        LET h == hs[p]
        IN  /\ IsSync(h) /\ h.pc = "done"
            /\ h.startRow \notin {NoRow, NullCursor}
            /\ upLen[h.item_id] = PosOf(h.startRow)
            => /\ cursors[h.item_id] = h.startRow
               /\ h.status = 200 =>
                     h.added = 0 /\ h.modified = 0 /\ h.removed = 0

\* C6 witness: such a re-sync, from a cursor past two updates, answered 200
C6_Witness ==
    \E p \in Procs :
        /\ IsSync(hs[p]) /\ hs[p].pc = "done" /\ hs[p].status = 200
        /\ hs[p].startRow = 2
        /\ upLen[hs[p].item_id] = 2
        /\ Len(hs[p].calls) = 1

HasItem(tbl, item_id) == \E k \in 1..Len(tbl) : tbl[k].item_id = item_id

\* C9: the items table never holds two rows with one item_id; an exchange for
\* which upstream returns an item_id already stored leaves every stored row as it
\* was (access_token and institution_name included), adds none, and still answers
\* 200 with that item_id.
C9_OneRowPerItem ==
    /\ [](\A j, k \in 1..Len(items) : items[j].item_id = items[k].item_id => j = k)
    /\ [][ /\ Len(items') >= Len(items)
           /\ \A k \in 1..Len(items) : items'[k] = items[k]
           /\ exchResp'.exchanged # "" /\ HasItem(items, exchResp'.exchanged)
                => /\ items' = items
                   /\ exchResp'.status = 200
                   /\ exchResp'.item_id = exchResp'.exchanged ]_vars

\* C9 witness: two items are stored and the last exchange answered with the
\* item_id of the older row, so it was a duplicate
C9_Witness ==
    /\ Len(items) = 2
    /\ exchResp.status = 200
    /\ exchResp.item_id = items[1].item_id

\* C4: a refresh request whose X-Refresh-Token header is missing or differs from
\* the configured secret, or that arrives when no secret is configured, is
\* answered 401 at once: the dashboard file is as it was when the request
\* arrived and no outbound call (transactionsRefresh, fetchItemSnapshot, file
\* write) was made.
C4_UnauthorizedRefreshRejected ==
    rh.pc # "idle" /\ (envToken = "" \/ rh.hdr # envToken)
        => /\ rh.pc = "done" /\ rh.status = 401
           /\ dashFile = rh.fileBefore
           /\ rh.outbound = {}
           /\ fs = IdleFetch

\* C4 witness: no secret is configured, the request carries no header, a
\* dashboard file exists
C4_Witness ==
    /\ rh.pc = "done" /\ rh.status = 401
    /\ envToken = "" /\ rh.hdr = ""
    /\ dashFile.state = "json"

\* C7: a returned snapshot carries an error marker exactly when accountsBalanceGet
\* and accountsGet both failed; it is then accounts_failed with no accounts and no
\* transactions, and neither liabilitiesGet nor transactionsGet was called.  A
\* failure of liabilitiesGet or of a transactionsGet page leaves the result without
\* error marker, and after a liabilitiesGet failure every account has liability null.
C7_ErrorMarkerOnlyForAccounts ==
    fs.pc = "returned" /\ ~fs.thrown
        => /\ fs.result.error # "" <=> (fs.balFailed /\ fs.accFailed)
           /\ fs.balFailed /\ fs.accFailed
                => /\ fs.result = [accounts |-> <<>>, transactions |-> <<>>,
                                   error |-> "accounts_failed"]
                   /\ ~fs.liabCalled /\ ~fs.txCalled
           /\ fs.liabFailed \/ fs.txFailed => fs.result.error = ""
           /\ fs.liabFailed
                => /\ Len(fs.result.accounts) = Len(fs.accounts[1])
                   /\ \A k \in 1..Len(fs.result.accounts) :
                         fs.result.accounts[k].liability = None

\* C7 witness: accounts came from the fallback, liabilitiesGet and the second
\* transactions page failed, and the snapshot holds accounts and a transaction
C7_Witness ==
    /\ fs.pc = "returned" /\ ~fs.thrown
    /\ fs.balFailed /\ ~fs.accFailed /\ fs.liabFailed /\ fs.txFailed
    /\ fs.result.accounts # <<>> /\ fs.result.transactions # <<>>

\* the items of the request whose snapshot outcome is not "ok"
FailedItemIds == {rh.items[k].item_id : k \in {j \in 1..Len(rh.outcomes) : rh.outcomes[j] # "ok"}}

\* C8: in an authorized refresh, whatever calls fail, every item read gets exactly
\* one snapshot entry, in order; an item whose accounts calls both failed has the
\* entry accounts_failed, one whose snapshot threw has snapshot_failed, both with
\* no accounts and no transactions, any other has no marker; when the file write
\* is reached every item has its entry; the errors list written holds exactly the
\* marked entries; and the request answers 200 with the file replaced unless the
\* write itself fails.
C8_RefreshIsolatesItemFailures ==
    rh.pc \in {"snapshot", "write", "done"} /\ rh.status # 401
        => /\ Len(rh.snapshots) = Len(rh.outcomes)
           /\ Len(rh.snapshots) =
                 (IF rh.pc = "snapshot" THEN rh.idx - 1 ELSE Len(rh.items))
           /\ \A k \in 1..Len(rh.snapshots) :
                 /\ rh.snapshots[k].item_id = rh.items[k].item_id
                 /\ rh.outcomes[k] = "ok" => rh.snapshots[k].error = ""
                 /\ rh.outcomes[k] = "accounts_failed"
                       => rh.snapshots[k].error = "accounts_failed"
                 /\ rh.outcomes[k] = "thrown"
                       => rh.snapshots[k].error = "snapshot_failed"
                 /\ rh.outcomes[k] # "ok"
                       => /\ rh.snapshots[k].accounts = <<>>
                          /\ rh.snapshots[k].transactions = <<>>
           /\ rh.pc \in {"write", "done"}
                 => /\ {rh.out.errors[k].item_id : k \in 1..Len(rh.out.errors)} = FailedItemIds
                    /\ Len(rh.out.errors) = Cardinality(FailedItemIds)
                    /\ \A k \in 1..Len(rh.out.errors) :
                          /\ rh.out.errors[k].error \in {"accounts_failed", "snapshot_failed"}
                          /\ rh.out.errors[k].accounts = <<>>
                          /\ rh.out.errors[k].transactions = <<>>
           /\ rh.pc = "done"
                 => \/ /\ rh.status = 200
                       /\ dashFile = [state |-> "json", data |-> rh.out]
                       /\ rh.body.errors = Cardinality(FailedItemIds)
                    \/ rh.status = 500 /\ rh.writeFailed

\* C8 witness: of two items the first one's snapshot threw and the second
\* one's accounts calls both failed; the file was written with both in errors
C8_Witness ==
    /\ rh.pc = "done" /\ rh.status = 200
    /\ rh.outcomes = <<"thrown", "accounts_failed">>
    /\ Len(dashFile.data.errors) = 2

\* C10: when a transactionsGet page request fails after k answered pages, the
\* snapshot still returns, without error marker: its transactions are the
\* reshaped transactions of the k answered pages in order, its accounts are the
\* reshaped accounts of step 1, and no page request is made after the failure.
C10_PartialTransactionsKept ==
    /\ fs.txFailed => fs.pc = "returned"
    /\ fs.pc = "returned" /\ fs.txFailed
         => /\ ~fs.thrown /\ fs.result.error = ""
            /\ Len(fs.result.transactions) = Len(fs.received)
            /\ \A k \in 1..Len(fs.received) :
                  fs.result.transactions[k] =
                      ShapeTx(fs.received[k], OrStr(fs.row.institution_name, ""), fs.accounts[1])
            /\ Len(fs.result.accounts) = Len(fs.accounts[1])
            /\ \A k \in 1..Len(fs.accounts[1]) :
                  /\ fs.result.accounts[k].mask = fs.accounts[1][k].mask
                  /\ fs.result.accounts[k].type = fs.accounts[1][k].type

\* C10 witness: the page request failed after a page with a transaction was taken
C10_Witness ==
    /\ fs.pc = "returned" /\ fs.txFailed
    /\ fs.received # <<>>
    /\ fs.result.accounts # <<>>
    /\ Len(fs.result.transactions) = Len(fs.received)

\* C11: with sync and sync-all requests interleaved in every way, requests for
\* the same item in flight together included, the stored cursor of an item is in
\* every reachable state absent or terminal: a next_cursor that upstream returned
\* for that item together with has_more = false.
C11_StoredCursorIsTerminal ==
    \A i \in ItemIds : cursors[i] = NoRow \/ cursors[i] \in terminals[i]

\* two requests for one item overlapped: both started before the item had a
\* cursors row; one has persisted its cursor and answered, the other holds the
\* intermediate cursor of a has_more = true response and has its next call in
\* flight
C11_Witness ==
    \E p \in Procs, q \in Procs :
        /\ p # q
        /\ hs[p].item_id = hs[q].item_id
        /\ hs[p].pc = "done" /\ hs[p].status = 200 /\ hs[p].item_id \in hs[p].persisted
        /\ hs[p].startRow = NoRow /\ hs[q].startRow = NoRow
        /\ hs[q].pc = "await" /\ hs[q].calls # <<>> /\ Last(hs[q].calls).has_more
        /\ cursors[hs[p].item_id] # NoRow
        /\ hs[q].cursor # cursors[hs[p].item_id]

====
